---- MODULE Spec2Model ----
(***************************************************************************)
(* Interactive investigation state machine and solution grading of the     *)
(* learning platform backend:                                              *)
(*   backend/app/services/interactive_lesson_service.py                    *)
(*   backend/app/main.py  (POST /interactive-slide-message)                *)
(*   backend/app/api_clients/mongo.py, backend/app/agent/agent.py          *)
(* Texts are TLA+ strings; Python's str methods are modelled by operators  *)
(* that compute on the characters.                                         *)
(***************************************************************************)
EXTENDS Integers, Sequences, FiniteSets, TLC

VARIABLES
    db_slide,     \* the investigation slide as stored in the lesson document
    session,      \* the in-memory InteractiveLessonSession object
    db_session,   \* the session document in the interactive_lessons collection
    req,          \* per request slot: an /interactive-slide-message call in flight
    last,         \* the result of the latest completed turn (what the caller gets)
    now,          \* the clock read by datetime.utcnow(); it ticks once per turn
    n_turns,      \* turns started so far
    n_responses,  \* slide responses returned so far
    hint_in,      \* inputs of a hint-eligibility evaluation
    hint_out,     \* its results, one per variant
    interactive_lessons,  \* the documents create_lesson_session has inserted
    n_creates,    \* create_lesson_session calls so far
    generated_lessons,    \* the lessons /generate-lesson has pushed, oldest first
    n_generates   \* /generate-lesson requests so far

vars == <<db_slide, session, db_session, req, last, now, n_turns, n_responses,
          hint_in, hint_out, interactive_lessons, n_creates, generated_lessons,
          n_generates>>

\* what the turns of a conversation never touch
creation_vars == <<interactive_lessons, n_creates, generated_lessons, n_generates>>

----------------------------------------------------------------------------
(* Bounds of the exploration *)

MaxTurns == 3

MaxCadenceTurns == 7

MaxConcTurns == 3

MaxHistLen == 13

MaxHintsIn == 3

MaxStoreOps == 2

\* /generate-lesson requests of a behaviour
MaxLessonOps == 2

----------------------------------------------------------------------------
(* Python str methods on texts *)

UpperChars == "ABCDEFGHIJKLMNOPQRSTUVWXYZ"

LowerChars == "abcdefghijklmnopqrstuvwxyz"

CharAt(s, i) == SubSeq(s, i, i)

LowerMap == [c \in {CharAt(UpperChars, i) : i \in 1..26} |->
               CharAt(LowerChars, CHOOSE i \in 1..26 : CharAt(UpperChars, i) = c)]

UpperMap == [c \in {CharAt(LowerChars, i) : i \in 1..26} |->
               CharAt(UpperChars, CHOOSE i \in 1..26 : CharAt(LowerChars, i) = c)]

LowerChar(c) == IF c \in DOMAIN LowerMap THEN LowerMap[c] ELSE c

UpperChar(c) == IF c \in DOMAIN UpperMap THEN UpperMap[c] ELSE c

\* str.lower() and str.upper(), character by character (split in halves)
RECURSIVE lower(_)
lower(s) ==
    IF Len(s) = 0 THEN ""
    ELSE IF Len(s) = 1 THEN LowerChar(s)
    ELSE lower(SubSeq(s, 1, Len(s) \div 2)) \o lower(SubSeq(s, Len(s) \div 2 + 1, Len(s)))

RECURSIVE upper(_)
upper(s) ==
    IF Len(s) = 0 THEN ""
    ELSE IF Len(s) = 1 THEN UpperChar(s)
    ELSE upper(SubSeq(s, 1, Len(s) \div 2)) \o upper(SubSeq(s, Len(s) \div 2 + 1, Len(s)))

IsSpace(c) == c \in {" ", "\n", "\t", "\r"}

RECURSIVE lstrip(_)
lstrip(s) == IF s # "" /\ IsSpace(CharAt(s, 1)) THEN lstrip(SubSeq(s, 2, Len(s))) ELSE s

RECURSIVE rstrip(_)
rstrip(s) ==
    IF s # "" /\ IsSpace(CharAt(s, Len(s))) THEN rstrip(SubSeq(s, 1, Len(s) - 1)) ELSE s

strip(s) == rstrip(lstrip(s))

startswith(s, prefix) == Len(prefix) <= Len(s) /\ SubSeq(s, 1, Len(prefix)) = prefix

endswith(s, suffix) ==
    Len(suffix) <= Len(s) /\ SubSeq(s, Len(s) - Len(suffix) + 1, Len(s)) = suffix

\* Python's `sub in s`
contains(s, sub) ==
    \E i \in 1..(Len(s) - Len(sub) + 1) : SubSeq(s, i, i + Len(sub) - 1) = sub

RECURSIVE repeat(_, _)
repeat(s, n) == IF n = 0 THEN "" ELSE s \o repeat(s, n - 1)

\* the number of whitespace-separated words of a text: the positions where one starts
WordCount(s) ==
    Cardinality({ i \in 1..Len(s) :
                    ~IsSpace(CharAt(s, i)) /\ (i = 1 \/ IsSpace(CharAt(s, i - 1))) })

----------------------------------------------------------------------------
(* The problem fixed at synthesis, and the texts the environment supplies *)

SlideId == "slide-detective"

SessionId == "session-1"

UserEmail == "dev@example.com"

Title == "Stale dashboard"

ProblemDescription == "Dashboards show another tenant's numbers."

ProblemContext == "Metrics are cached per report."

Solution == "The cache key lacked the tenant id."

StaticHints == <<"Look at the cache.">>

\* a multi-sentence explanation of 57 words with no give-up or hint-request phrase
LongAnswer == repeat("The cache key lacked the tenant id so ", 7) \o "we fixed it."

\* user messages of a turn
Messages ==
    { "I Give Up",
      "Hint please",
      "what error are we seeing?",
      "I'm stuck",
      LongAnswer }

\* messages with neither a give-up phrase nor a hint-request phrase
SilentMessages == { "what error are we seeing?", "Is it the cache" }

\* What the ReAct agent run does on one prompt: it returns a text, or it raises.
Returned(text) == [raised |-> FALSE, text |-> text]

Raised(text) == [raised |-> TRUE, text |-> text]

GraderRuns ==
    { Returned("CORRECT"),
      Returned("INCORRECT"),
      Returned("  correct\n"),
      Returned("CORRECTION: not quite"),
      Returned("The answer is CORRECT"),
      Raised("timeout") }

ReplyRuns ==
    { Returned("  Check the cache layer logs.  "),
      Raised("timeout") }

\* requests on the same slide that overlap in time
ConcMessages == { "Hint please", "what error are we seeing?", "I Give Up" }

HintMessages ==
    Messages \cup SilentMessages \cup
    { "give me a Clue", "HELP", "Not sure about it", "Any ideas" }

\* messages that hold a give-up phrase and a hint-request word, the hint word
\* stuck alone, or neither
LexiconMessages ==
    { "I'm stuck", "give up, any hint", "We are stuck on the cache",
      "what error are we seeing?" }

KnownMessages ==
    Messages \cup SilentMessages \cup ConcMessages \cup HintMessages \cup LexiconMessages

KnownRuns == GraderRuns \cup ReplyRuns \cup {Returned("")}

----------------------------------------------------------------------------
(* agent.py *)

\* Agent.query: every exception of the run is caught and returned as a text.
Agent_query(run) ==
    IF run.raised
    THEN [raised |-> FALSE, text |-> "Error executing query: " \o run.text]
    ELSE [raised |-> FALSE, text |-> run.text]

----------------------------------------------------------------------------
(* interactive_lesson_service.py: the pure parts *)

give_up_phrases ==
    << "i give up", "give up", "i don't know", "no idea",
       "can't figure", "show me the answer", "what's the solution",
       "i'm stuck", "tell me the answer", "reveal the solution" >>

hint_requests == << "hint", "clue", "help", "stuck", "not sure", "any ideas" >>

\* _is_giving_up with a lexicon that lacks "i'm stuck"
_is_giving_up_without_stuck(message) ==
    LET message_lower == lower(message)
    IN  \E k \in 1..Len(give_up_phrases) :
           /\ give_up_phrases[k] # "i'm stuck"
           /\ contains(message_lower, give_up_phrases[k])

_is_giving_up(message) ==
    LET message_lower == lower(message)
    IN  \E k \in 1..Len(give_up_phrases) : contains(message_lower, give_up_phrases[k])

\* each message is classified once, not once per state
is_giving_up_of == [m \in KnownMessages |-> _is_giving_up(m)]

\* ParseVerdict looking for the token anywhere in the answer
ParseVerdict_anywhere(q) ==
    IF q.raised
    THEN FALSE
    ELSE contains(strip(upper(q.text)), "CORRECT")

\* the parse of the grader's answer, the same in both variants of the check
ParseVerdict(q) ==
    IF q.raised
    THEN FALSE
    ELSE LET response_upper == strip(upper(q.text))
         IN  IF startswith(response_upper, "CORRECT") THEN TRUE
             ELSE IF startswith(response_upper, "INCORRECT") THEN FALSE
             ELSE FALSE

\* each run of the oracle is queried and parsed once, not once per state
verdict_of == [r \in KnownRuns |-> ParseVerdict(Agent_query(r))]

_check_solution(sess, message, run) == verdict_of[run]

_check_slide_solution(slide_data, message, run) == verdict_of[run]

explicit_hint_request(message) ==
    LET message_lower == lower(message)
    IN  \E k \in 1..Len(hint_requests) : contains(message_lower, hint_requests[k])

explicit_hint_request_of == [m \in KnownMessages |-> explicit_hint_request(m)]

_should_provide_hint(sess, message) ==
    LET conversation_length == Len(sess.chat_history)
    IN  \/ explicit_hint_request_of[message]
        \/ (conversation_length >= 4 /\ conversation_length % 4 = 0)
        \/ (conversation_length >= 8 /\ sess.hints_given < 2)

\* _should_provide_slide_hint with the period of the cadence off by one
_should_provide_slide_hint_every5(slide_data, message) ==
    LET conversation_length == Len(slide_data.chat_history)
    IN  \/ explicit_hint_request_of[message]
        \/ (conversation_length >= 4 /\ conversation_length % 5 = 0)
        \/ (conversation_length >= 8 /\ slide_data.hints_given < 2)

_should_provide_slide_hint(slide_data, message) ==
    LET conversation_length == Len(slide_data.chat_history)
    IN  \/ explicit_hint_request_of[message]
        \/ (conversation_length >= 4 /\ conversation_length % 4 = 0)
        \/ (conversation_length >= 8 /\ slide_data.hints_given < 2)

\* response = await self.agent.query(prompt); response.strip(), or the exception
QueryStripped(run) ==
    LET q == Agent_query(run)
    IN  IF q.raised THEN [raised |-> TRUE, text |-> ""]
        ELSE [raised |-> FALSE, text |-> strip(q.text)]

stripped_reply_of == [r \in KnownRuns |-> QueryStripped(r)]

FallbackReply == "I'm having trouble processing that. Can you try rephrasing your question?"

\* str(e) of the exception a failed agent run raises
ErrorPayload == "timeout"

_generate_investigative_response(sess, message, run) ==
    LET should_provide_hint == _should_provide_hint(sess, message)
        q == stripped_reply_of[run]
    IN  IF q.raised
        THEN [response |-> FallbackReply, hint_provided |-> FALSE]
        ELSE [response |-> q.text, hint_provided |-> should_provide_hint]

_generate_slide_response(slide_data, message, run) ==
    LET should_provide_hint == _should_provide_slide_hint(slide_data, message)
        q == stripped_reply_of[run]
    IN  IF q.raised
        THEN [response |-> FallbackReply, hint_provided |-> FALSE]
        ELSE [response |-> q.text, hint_provided |-> should_provide_hint]

\* GiveUpReply without the solution in it
GiveUpReply_no_solution(solution) ==
    "No worries! Here's what actually happened:\n\n" \o
    "\n\nThis was a great learning opportunity - these kinds of issues help us understand our system better!"

\* SolvedReply without the solution in it
SolvedReply_no_solution(solution) ==
    "Excellent work! You've solved it!\n\n" \o
    "\n\nGreat investigation skills - this is exactly how our team approaches these kinds of issues!"

GiveUpReply(solution) ==
    "No worries! Here's what actually happened:\n\n" \o solution \o
    "\n\nThis was a great learning opportunity - these kinds of issues help us understand our system better!"

\* (the source's text opens with a party-popper emoji, left out here)
SolvedReply(solution) ==
    "Excellent work! You've solved it!\n\n" \o solution \o
    "\n\nGreat investigation skills - this is exactly how our team approaches these kinds of issues!"

\* every reply text a turn of the model can return
KnownReplies ==
    { GiveUpReply(Solution), SolvedReply(Solution), FallbackReply } \cup
    { stripped_reply_of[r].text : r \in KnownRuns }

\* each reply text is searched once for the solution and for the error payload
reveals_solution_of == [t \in KnownReplies |-> contains(t, Solution)]

carries_error_of == [t \in KnownReplies |-> contains(t, ErrorPayload)]

\* one self.agent.query(...) of a turn: which prompt, and what the agent run did
Call(kind, run) == [kind |-> kind, run |-> run]

\* handle_slide_message grading before it looks for a give-up phrase
handle_slide_message_grade_first(slide_data, message, grade_run, reply_run) ==
    IF _check_slide_solution(slide_data, message, grade_run)
    THEN [response |-> SolvedReply(slide_data.solution), is_correct |-> TRUE,
          hint_provided |-> FALSE, completed |-> TRUE,
          oracle_calls |-> <<Call("grade", grade_run)>>]
    ELSE IF is_giving_up_of[message]
    THEN [response |-> GiveUpReply(slide_data.solution), is_correct |-> FALSE,
          hint_provided |-> FALSE, completed |-> TRUE,
          oracle_calls |-> <<Call("grade", grade_run)>>]
    ELSE LET g == _generate_slide_response(slide_data, message, reply_run)
         IN  [response |-> g.response, is_correct |-> FALSE,
              hint_provided |-> g.hint_provided, completed |-> FALSE,
              oracle_calls |-> <<Call("grade", grade_run), Call("reply", reply_run)>>]

\* handle_slide_message reporting a correct answer without completing
handle_slide_message_solved_open(slide_data, message, grade_run, reply_run) ==
    IF is_giving_up_of[message]
    THEN [response |-> GiveUpReply(slide_data.solution), is_correct |-> FALSE,
          hint_provided |-> FALSE, completed |-> TRUE, oracle_calls |-> <<>>]
    ELSE IF _check_slide_solution(slide_data, message, grade_run)
    THEN [response |-> SolvedReply(slide_data.solution), is_correct |-> TRUE,
          hint_provided |-> FALSE, completed |-> FALSE,
          oracle_calls |-> <<Call("grade", grade_run)>>]
    ELSE LET g == _generate_slide_response(slide_data, message, reply_run)
         IN  [response |-> g.response, is_correct |-> FALSE,
              hint_provided |-> g.hint_provided, completed |-> FALSE,
              oracle_calls |-> <<Call("grade", grade_run), Call("reply", reply_run)>>]

\* handle_slide_message: the tuple it returns, and the oracle calls it made in order
handle_slide_message(slide_data, message, grade_run, reply_run) ==
    IF is_giving_up_of[message]
    THEN [response |-> GiveUpReply(slide_data.solution), is_correct |-> FALSE,
          hint_provided |-> FALSE, completed |-> TRUE, oracle_calls |-> <<>>]
    ELSE IF _check_slide_solution(slide_data, message, grade_run)
    THEN [response |-> SolvedReply(slide_data.solution), is_correct |-> TRUE,
          hint_provided |-> FALSE, completed |-> TRUE,
          oracle_calls |-> <<Call("grade", grade_run)>>]
    ELSE LET g == _generate_slide_response(slide_data, message, reply_run)
         IN  [response |-> g.response, is_correct |-> FALSE,
              hint_provided |-> g.hint_provided, completed |-> FALSE,
              oracle_calls |-> <<Call("grade", grade_run), Call("reply", reply_run)>>]

\* handle_chat_message asking for the reply before it asks for the grade
handle_chat_message_reply_first(sess, message, grade_run, reply_run, utcnow) ==
    IF is_giving_up_of[message]
    THEN [session |-> [sess EXCEPT !.current_state = "given_up",
                                   !.completed_at = <<utcnow>>],
          response |-> GiveUpReply(sess.solution), is_correct |-> FALSE,
          hint_provided |-> FALSE, completed |-> TRUE, oracle_calls |-> <<>>]
    ELSE LET g == _generate_investigative_response(sess, message, reply_run)
             calls == <<Call("reply", reply_run), Call("grade", grade_run)>>
         IN  IF _check_solution(sess, message, grade_run)
             THEN [session |-> [sess EXCEPT !.current_state = "solved",
                                            !.completed_at = <<utcnow>>],
                   response |-> SolvedReply(sess.solution), is_correct |-> TRUE,
                   hint_provided |-> FALSE, completed |-> TRUE,
                   oracle_calls |-> calls]
             ELSE [session |-> IF g.hint_provided
                               THEN [sess EXCEPT !.hints_given = @ + 1]
                               ELSE sess,
                   response |-> g.response, is_correct |-> FALSE,
                   hint_provided |-> g.hint_provided, completed |-> FALSE,
                   oracle_calls |-> calls]

\* handle_chat_message leaving completed_at alone when the answer is correct
handle_chat_message_unstamped_solve(sess, message, grade_run, reply_run, utcnow) ==
    IF is_giving_up_of[message]
    THEN [session |-> [sess EXCEPT !.current_state = "given_up",
                                   !.completed_at = <<utcnow>>],
          response |-> GiveUpReply(sess.solution), is_correct |-> FALSE,
          hint_provided |-> FALSE, completed |-> TRUE, oracle_calls |-> <<>>]
    ELSE IF _check_solution(sess, message, grade_run)
    THEN [session |-> [sess EXCEPT !.current_state = "solved"],
          response |-> SolvedReply(sess.solution), is_correct |-> TRUE,
          hint_provided |-> FALSE, completed |-> TRUE,
          oracle_calls |-> <<Call("grade", grade_run)>>]
    ELSE LET g == _generate_investigative_response(sess, message, reply_run)
         IN  [session |-> IF g.hint_provided
                          THEN [sess EXCEPT !.hints_given = @ + 1]
                          ELSE sess,
              response |-> g.response, is_correct |-> FALSE,
              hint_provided |-> g.hint_provided, completed |-> FALSE,
              oracle_calls |-> <<Call("grade", grade_run), Call("reply", reply_run)>>]

\* handle_chat_message: the tuple it returns, the oracle calls it made, and the
\* session object as it leaves it (the object is mutated in place)
handle_chat_message(sess, message, grade_run, reply_run, utcnow) ==
    IF is_giving_up_of[message]
    THEN [session |-> [sess EXCEPT !.current_state = "given_up",
                                   !.completed_at = <<utcnow>>],
          response |-> GiveUpReply(sess.solution), is_correct |-> FALSE,
          hint_provided |-> FALSE, completed |-> TRUE, oracle_calls |-> <<>>]
    ELSE IF _check_solution(sess, message, grade_run)
    THEN [session |-> [sess EXCEPT !.current_state = "solved",
                                   !.completed_at = <<utcnow>>],
          response |-> SolvedReply(sess.solution), is_correct |-> TRUE,
          hint_provided |-> FALSE, completed |-> TRUE,
          oracle_calls |-> <<Call("grade", grade_run)>>]
    ELSE LET g == _generate_investigative_response(sess, message, reply_run)
         IN  [session |-> IF g.hint_provided
                          THEN [sess EXCEPT !.hints_given = @ + 1]
                          ELSE sess,
              response |-> g.response, is_correct |-> FALSE,
              hint_provided |-> g.hint_provided, completed |-> FALSE,
              oracle_calls |-> <<Call("grade", grade_run), Call("reply", reply_run)>>]

----------------------------------------------------------------------------
(* models.py: the two persistence shapes *)

\* InteractiveInvestigationSlide as _create_detective_slide_from_data builds it
InteractiveInvestigationSlide ==
    [ type                |-> "interactive_investigation",
      id                  |-> SlideId,
      title               |-> Title,
      problem_description |-> ProblemDescription,
      problem_context     |-> ProblemContext,
      solution            |-> Solution,
      hints               |-> StaticHints,
      chat_history        |-> <<>>,
      current_state       |-> "investigating",
      hints_given         |-> 0 ]

\* InteractiveLessonSession as create_lesson_session builds it; completed_at is
\* <<>> for None and <<t>> once set
InteractiveLessonSession ==
    [ id                  |-> SessionId,
      user_email          |-> UserEmail,
      problem_title       |-> Title,
      problem_description |-> ProblemDescription,
      problem_context     |-> ProblemContext,
      solution            |-> Solution,
      current_state       |-> "investigating",
      hints_given         |-> 0,
      chat_history        |-> <<>>,
      created_at          |-> 0,
      completed_at        |-> <<>> ]

----------------------------------------------------------------------------
(* mongo.py and the service's get_session / update_session: the document shape *)

SessionFields == DOMAIN InteractiveLessonSession

\* the defaults pydantic gives the fields a document may lack
SessionDefaults ==
    [ current_state |-> "investigating",
      hints_given   |-> 0,
      chat_history  |-> <<>>,
      completed_at  |-> <<>> ]

\* the _id values the store hands out, in order
ObjectIds == << "oid-1", "oid-2", "oid-3", "oid-4", "oid-5", "oid-6" >>

\* model_dump losing the hint counter
model_dump_without_counter(sess) == [f \in SessionFields \ {"hints_given"} |-> sess[f]]

\* session.model_dump(): a dict of the model's fields. The clock of the model
\* ticks in whole milliseconds, the precision at which the store keeps a datetime.
model_dump(sess) == [f \in SessionFields |-> sess[f]]

\* insert_one: the document stored is the dict plus the _id the store assigns
insert_one(session_data, oid) ==
    [f \in DOMAIN session_data \cup {"_id"} |->
        IF f = "_id" THEN oid ELSE session_data[f]]

\* update_one with $set of the dict: its fields replace the document's, the
\* others (_id) stay
update_interactive_lesson_session(doc, session_data) ==
    [f \in DOMAIN doc \cup DOMAIN session_data |->
        IF f \in DOMAIN session_data THEN session_data[f] ELSE doc[f]]

\* InteractiveLessonSession(**session_data): fields that are not the model's
\* (_id) are ignored, absent optional ones take their default
load_session(doc) ==
    [f \in SessionFields |-> IF f \in DOMAIN doc THEN doc[f] ELSE SessionDefaults[f]]

\* find_one on id alone
get_interactive_lesson_session_any_owner(collection, session_id, user_email) ==
    LET hits == { i \in 1..Len(collection) : collection[i].id = session_id }
    IN  IF hits = {} THEN <<>>
        ELSE << collection[CHOOSE i \in hits : \A j \in hits : i <= j] >>

\* find_one({"id": session_id, "user_email": user_email}): <<>> for None
get_interactive_lesson_session(collection, session_id, user_email) ==
    LET hits == { i \in 1..Len(collection) :
                    /\ collection[i].id = session_id
                    /\ collection[i].user_email = user_email }
    IN  IF hits = {} THEN <<>>
        ELSE << collection[CHOOSE i \in hits : \A j \in hits : i <= j] >>

\* the service's get_session: None, or the session built from the document
InteractiveLessonService_get_session(collection, session_id, user_email) ==
    LET session_data == get_interactive_lesson_session(collection, session_id, user_email)
    IN  IF session_data = <<>> THEN <<>> ELSE << load_session(session_data[1]) >>

----------------------------------------------------------------------------
(* main.py: POST /interactive-slide-message *)

\* SlideUpdate forgetting to count the hint
SlideUpdate_hint_uncounted(slide_data, message, res, utcnow) ==
    LET user_entry == [role |-> "user", message |-> message, timestamp |-> utcnow]
        assistant_entry ==
            [role |-> "assistant", message |-> res.response, timestamp |-> utcnow,
             is_correct |-> res.is_correct, hint_provided |-> res.hint_provided]
        s1 == [slide_data EXCEPT
                 !.chat_history = Append(Append(@, user_entry), assistant_entry)]
    IN  IF res.completed
        THEN [s1 EXCEPT !.current_state = IF res.is_correct THEN "solved" ELSE "given_up"]
        ELSE s1

\* SlideUpdate writing the slide back without its static hints
SlideUpdate_hints_cleared(slide_data, message, res, utcnow) ==
    LET user_entry == [role |-> "user", message |-> message, timestamp |-> utcnow]
        assistant_entry ==
            [role |-> "assistant", message |-> res.response, timestamp |-> utcnow,
             is_correct |-> res.is_correct, hint_provided |-> res.hint_provided]
        s1 == [slide_data EXCEPT
                 !.chat_history = Append(Append(@, user_entry), assistant_entry),
                 !.hints = <<>>]
        s2 == IF res.hint_provided THEN [s1 EXCEPT !.hints_given = @ + 1] ELSE s1
    IN  IF res.completed
        THEN [s2 EXCEPT !.current_state = IF res.is_correct THEN "solved" ELSE "given_up"]
        ELSE s2

\* lines 605-624: the endpoint's update of the slide it read
SlideUpdate(slide_data, message, res, utcnow) ==
    LET user_entry == [role |-> "user", message |-> message, timestamp |-> utcnow]
        assistant_entry ==
            [role |-> "assistant", message |-> res.response, timestamp |-> utcnow,
             is_correct |-> res.is_correct, hint_provided |-> res.hint_provided]
        s1 == [slide_data EXCEPT
                 !.chat_history = Append(Append(@, user_entry), assistant_entry)]
        s2 == IF res.hint_provided THEN [s1 EXCEPT !.hints_given = @ + 1] ELSE s1
    IN  IF res.completed
        THEN [s2 EXCEPT !.current_state = IF res.is_correct THEN "solved" ELSE "given_up"]
        ELSE s2

\* what a completed turn hands back, with the message and the state it ran on
Summary(entity) ==
    [ current_state |-> entity.current_state,
      hints_given   |-> entity.hints_given,
      history_len   |-> Len(entity.chat_history) ]

\* the standalone path returns the tuple only: no slide goes to the caller
NoSlide == [type |-> "none"]

\* InteractiveSlideMessageResponse (response, is_correct, hint_provided,
\* investigation_completed, updated_slide), or handle_chat_message's tuple
TurnRecord(kind, prior, after, message, res) ==
    [ kind          |-> kind,
      prior         |-> Summary(prior),
      after         |-> Summary(after),
      message       |-> message,
      response      |-> res.response,
      is_correct    |-> res.is_correct,
      hint_provided |-> res.hint_provided,
      completed     |-> res.completed,
      updated_slide |-> IF kind = "slide" THEN after ELSE NoSlide,
      oracle_calls  |-> res.oracle_calls ]

NoTurn == [kind |-> "none"]

Idle == [pc |-> "idle"]

Requests == {1, 2}

\* the whole endpoint with no other request in flight: read the lesson, find the
\* slide, run the turn, update the slide, write it back
SlideMessage(message, grade_run, reply_run) ==
    /\ n_turns < MaxTurns
    /\ \A p \in Requests : req[p].pc = "idle"
    /\ LET slide_data == db_slide
           res == handle_slide_message(slide_data, message, grade_run, reply_run)
           updated_slide == SlideUpdate(slide_data, message, res, now)
       IN  /\ db_slide' = updated_slide
           /\ last' = TurnRecord("slide", slide_data, updated_slide, message, res)
    /\ now' = now + 1
    /\ n_turns' = n_turns + 1
    /\ n_responses' = n_responses + 1
    /\ UNCHANGED <<session, db_session, req, hint_in, hint_out>>
    /\ UNCHANGED creation_vars

\* the endpoint up to its first suspension: a give-up turn never awaits and runs
\* to its write at once; any other turn is suspended in the grading query
SlideBegin(p, message) ==
    /\ n_turns < MaxConcTurns
    /\ req[p].pc = "idle"
    /\ n_turns' = n_turns + 1
    /\ LET slide_data == db_slide
       IN  IF is_giving_up_of[message]
           THEN LET run == Returned("")
                    res == handle_slide_message(slide_data, message, run, run)
                    updated_slide == SlideUpdate(slide_data, message, res, now)
                IN  /\ db_slide' = updated_slide
                    /\ last' = TurnRecord("slide", slide_data, updated_slide, message, res)
                    /\ now' = now + 1
                    /\ n_responses' = n_responses + 1
                    /\ UNCHANGED req
           ELSE /\ req' = [req EXCEPT ![p] = [pc |-> "awaiting", message |-> message,
                                              slide_data |-> slide_data]]
                /\ UNCHANGED <<db_slide, last, now, n_responses>>
    /\ UNCHANGED <<session, db_session, hint_in, hint_out>>
    /\ UNCHANGED creation_vars

\* SlideFinish writing the history it built but counting the hint on the
\* stored counter
SlideFinish_stored_counter(p, grade_run, reply_run) ==
    /\ req[p].pc = "awaiting"
    /\ LET slide_data == req[p].slide_data
           message == req[p].message
           res == handle_slide_message(slide_data, message, grade_run, reply_run)
           updated_slide == SlideUpdate(slide_data, message, res, now)
       IN  /\ db_slide' = [updated_slide EXCEPT !.hints_given =
                              db_slide.hints_given + (IF res.hint_provided THEN 1 ELSE 0)]
           /\ last' = TurnRecord("slide", slide_data, updated_slide, message, res)
    /\ req' = [req EXCEPT ![p] = Idle]
    /\ now' = now + 1
    /\ n_responses' = n_responses + 1
    /\ UNCHANGED <<session, db_session, n_turns, hint_in, hint_out>>
    /\ UNCHANGED creation_vars

\* the endpoint from the oracle's answers to its return: the slide written is
\* the copy this request read, updated
SlideFinish(p, grade_run, reply_run) ==
    /\ req[p].pc = "awaiting"
    /\ LET slide_data == req[p].slide_data
           message == req[p].message
           res == handle_slide_message(slide_data, message, grade_run, reply_run)
           updated_slide == SlideUpdate(slide_data, message, res, now)
       IN  /\ db_slide' = updated_slide
           /\ last' = TurnRecord("slide", slide_data, updated_slide, message, res)
    /\ req' = [req EXCEPT ![p] = Idle]
    /\ now' = now + 1
    /\ n_responses' = n_responses + 1
    /\ UNCHANGED <<session, db_session, n_turns, hint_in, hint_out>>
    /\ UNCHANGED creation_vars

\* SlideCancel leaving the user's entry in the store
SlideCancel_partial_write(p) ==
    /\ req[p].pc = "awaiting"
    /\ db_slide' = [db_slide EXCEPT !.chat_history =
                       Append(@, [role |-> "user", message |-> req[p].message,
                                  timestamp |-> now])]
    /\ req' = [req EXCEPT ![p] = Idle]
    /\ UNCHANGED <<session, db_session, last, now, n_turns, n_responses,
                   hint_in, hint_out>>
    /\ UNCHANGED creation_vars

\* the request is cancelled while it awaits the oracle (grading or reply): the
\* CancelledError leaves the endpoint before lines 605-629, nothing is written
SlideCancel(p) ==
    /\ req[p].pc = "awaiting"
    /\ req' = [req EXCEPT ![p] = Idle]
    /\ UNCHANGED <<db_slide, session, db_session, last, now, n_turns, n_responses,
                   hint_in, hint_out>>
    /\ UNCHANGED creation_vars

----------------------------------------------------------------------------
(* The standalone session: handle_chat_message, get_session, update_session *)

ChatMessage(message, grade_run, reply_run) ==
    /\ n_turns < MaxTurns
    /\ LET res == handle_chat_message(session, message, grade_run, reply_run, now)
       IN  /\ session' = res.session
           /\ last' = TurnRecord("session", session, res.session, message, res)
    /\ now' = now + 1
    /\ n_turns' = n_turns + 1
    /\ UNCHANGED <<db_slide, db_session, req, n_responses, hint_in, hint_out>>
    /\ UNCHANGED creation_vars

\* a standalone turn cancelled while it awaits the oracle: handle_chat_message
\* assigns to the session only after an await has returned, and a give-up turn
\* never awaits
ChatCancel(message) ==
    /\ n_turns < MaxConcTurns
    /\ ~is_giving_up_of[message]
    /\ n_turns' = n_turns + 1
    /\ UNCHANGED <<db_slide, session, db_session, req, last, now, n_responses,
                   hint_in, hint_out>>
    /\ UNCHANGED creation_vars

update_session ==
    /\ LET doc == update_interactive_lesson_session(db_session, model_dump(session))
       IN  /\ db_session # doc
           /\ db_session' = doc
    /\ UNCHANGED <<db_slide, session, req, last, now, n_turns, n_responses,
                   hint_in, hint_out>>
    /\ UNCHANGED creation_vars

get_session ==
    /\ LET found == InteractiveLessonService_get_session(
                        <<db_session>> \o interactive_lessons, SessionId, UserEmail)
       IN  /\ found # <<>>
           /\ session # found[1]
           /\ session' = found[1]
    /\ UNCHANGED <<db_slide, db_session, req, last, now, n_turns, n_responses,
                   hint_in, hint_out>>
    /\ UNCHANGED creation_vars

----------------------------------------------------------------------------
(* Session creation: create_lesson_session, _generate_investigation_problem,
   _parse_problem_response *)

\* JSON values as json.loads builds them
JsonString(text) == [json |-> "string", value |-> text]

JsonNull == [json |-> "null"]

JsonObject(members) == [json |-> "object", members |-> members]

JsonArray(items) == [json |-> "array", items |-> items]

\* texts the oracle may hand back for the synthesis prompt
ThreeFieldsText ==
    "\"title\": \"" \o Title \o "\", \"description\": \"" \o ProblemDescription \o
    "\", \"context\": \"" \o ProblemContext \o "\""

ProblemJson ==
    "{" \o ThreeFieldsText \o ", \"solution\": \"" \o Solution \o
    "\", \"search_summary\": \"Two tickets.\"}"

MissingSolutionJson == "{" \o ThreeFieldsText \o "}"

NullSolutionJson == "{" \o ThreeFieldsText \o ", \"solution\": null}"

FieldNamesJson == "[\"title\", \"description\", \"context\", \"solution\"]"

ThreeFields ==
    [ title       |-> JsonString(Title),
      description |-> JsonString(ProblemDescription),
      context     |-> JsonString(ProblemContext) ]

\* Lesson.slides: min_length and max_length
MinSlides == 10

MaxSlides == 15

\* texts the oracle may hand back for the lesson prompt: a lesson of n slides of
\* type info, after one slide of a type the service does not know when
\* with_unknown, and a detective scenario or none
SlideCounts == { MinSlides - 1, MinSlides, MaxSlides, MaxSlides + 1 }

DetectiveKinds == { "none", "complete", "no_solution" }

LessonInputs == SlideCounts \X BOOLEAN \X DetectiveKinds

SlideText(type) == "{\"type\": \"" \o type \o "\"}"

SlidesText(n, with_unknown) ==
    (IF with_unknown THEN SlideText("quiz") \o ", " ELSE "")
    \o repeat(SlideText("info") \o ", ", n - 1) \o SlideText("info")

DetectiveThreeFieldsText ==
    "\"title\": \"" \o Title \o "\", \"problem_description\": \"" \o
    ProblemDescription \o "\", \"problem_context\": \"" \o ProblemContext \o "\""

DetectiveText(kind) ==
    IF kind = "complete"
    THEN "{" \o DetectiveThreeFieldsText \o ", \"solution\": \"" \o Solution \o "\"}"
    ELSE "{" \o DetectiveThreeFieldsText \o "}"

LessonText(input) ==
    "{\"title\": \"Tenant caching\", \"slides\": [" \o SlidesText(input[1], input[2])
    \o "]" \o
    (IF input[3] = "none" THEN ""
     ELSE ", \"detective_scenario\": " \o DetectiveText(input[3]))
    \o "}"

SlideValue(type) == JsonObject([type |-> JsonString(type)])

DetectiveThreeFields ==
    [ title               |-> JsonString(Title),
      problem_description |-> JsonString(ProblemDescription),
      problem_context     |-> JsonString(ProblemContext) ]

DetectiveValue(kind) ==
    IF kind = "complete"
    THEN JsonObject(DetectiveThreeFields @@ [solution |-> JsonString(Solution)])
    ELSE JsonObject(DetectiveThreeFields)

LessonValue(input) ==
    LET slides == (IF input[2] THEN << SlideValue("quiz") >> ELSE <<>>)
                  \o [k \in 1..input[1] |-> SlideValue("info")]
        head == [title |-> JsonString("Tenant caching"), slides |-> JsonArray(slides)]
    IN  IF input[3] = "none" THEN JsonObject(head)
        ELSE JsonObject(head @@ [detective_scenario |-> DetectiveValue(input[3])])

\* json.loads on the lesson texts
LessonValueOf ==
    [ t \in { LessonText(input) : input \in LessonInputs } |->
        LessonValue(CHOOSE input \in LessonInputs : LessonText(input) = t) ]

\* json.loads on the texts of the model: the value of each well-formed text
JsonValueOf ==
    (ProblemJson :> JsonObject(ThreeFields @@ [solution |-> JsonString(Solution),
                                               search_summary |-> JsonString("Two tickets.")]))
    @@ (MissingSolutionJson :> JsonObject(ThreeFields))
    @@ (NullSolutionJson :> JsonObject(ThreeFields @@ [solution |-> JsonNull]))
    @@ (FieldNamesJson :> JsonArray(<< JsonString("title"), JsonString("description"),
                                       JsonString("context"), JsonString("solution") >>))
    @@ LessonValueOf

Success(value) == [ok |-> TRUE, value |-> value]

Failure(error) == [ok |-> FALSE, error |-> error]

\* json.loads: the value, or JSONDecodeError for a text that is not JSON
json_loads(text) ==
    IF text \in DOMAIN JsonValueOf THEN Success(JsonValueOf[text])
    ELSE Failure("JSONDecodeError")

\* Python's `field in problem_data` on a dict (its keys) and on a list (its items)
py_in(field, value) ==
    IF value.json = "object" THEN field \in DOMAIN value.members
    ELSE \E i \in 1..Len(value.items) : value.items[i] = JsonString(field)

required_fields == << "title", "description", "context", "solution" >>

\* the backquote character, which a TLA+ string cannot hold, is written ^ in
\* the texts of the model
Backquote == "^"

Fence == Backquote \o Backquote \o Backquote

\* the fence stripping of _parse_problem_response
StripFences(response) ==
    LET r1 == strip(response)
        r2 == IF startswith(r1, Fence \o "json") THEN SubSeq(r1, 8, Len(r1))
              ELSE IF startswith(r1, Fence) THEN SubSeq(r1, 4, Len(r1))
              ELSE r1
        r3 == IF endswith(r2, Fence) THEN SubSeq(r2, 1, Len(r2) - 3) ELSE r2
    IN  strip(r3)

\* _parse_problem_response filling a missing field with an empty text
_parse_problem_response_lenient(response) ==
    LET loaded == json_loads(StripFences(response))
    IN  IF ~loaded.ok THEN Failure("ValueError")
        ELSE IF loaded.value.json # "object" THEN Success(loaded.value)
        ELSE Success(JsonObject(
                 [f \in DOMAIN loaded.value.members \cup
                         {required_fields[k] : k \in 1..Len(required_fields)} |->
                     IF f \in DOMAIN loaded.value.members
                     THEN loaded.value.members[f] ELSE JsonString("")]))

\* _parse_problem_response: the parsed value, or the ValueError it raises
_parse_problem_response(response) ==
    LET loaded == json_loads(StripFences(response))
    IN  IF ~loaded.ok THEN Failure("ValueError")
        ELSE IF \E k \in 1..Len(required_fields) :
                    ~py_in(required_fields[k], loaded.value)
        THEN Failure("ValueError")
        ELSE Success(loaded.value)

\* what the agent run does on the synthesis prompt
SynthesisRuns ==
    { Returned(ProblemJson),
      Returned(Fence \o "json\n" \o ProblemJson \o "\n" \o Fence),
      Returned("  " \o Fence \o "\n" \o ProblemJson \o "\n" \o Fence \o "\n"),
      Returned("Here is the investigation: " \o ProblemJson),
      Returned(MissingSolutionJson),
      Returned(NullSolutionJson),
      Returned(FieldNamesJson),
      Raised("timeout") }

\* _generate_investigation_problem: one query, then the parse; each run is
\* queried and parsed once, not once per state
_generate_investigation_problem(run) == _parse_problem_response(Agent_query(run).text)

problem_data_of == [r \in SynthesisRuns |-> _generate_investigation_problem(r)]

\* str(uuid.uuid4()) of the successive calls
SessionIds == << "session-2", "session-3", "session-4", "session-5", "session-6" >>

\* create_lesson_session: the session it returns or the exception it re-raises,
\* the oracle calls it made, and the documents it inserted
create_lesson_session(user_email, run, new_id, oid, utcnow) ==
    LET problem_data == problem_data_of[run]
        calls == << Call("synthesize", run) >>
        failed(error) == [ok |-> FALSE, error |-> error, session |-> <<>>,
                          oracle_calls |-> calls, inserted |-> <<>>]
    IN  IF ~problem_data.ok THEN failed(problem_data.error)
        ELSE IF problem_data.value.json # "object" THEN failed("TypeError")
        ELSE IF \E k \in 1..Len(required_fields) :
                    problem_data.value.members[required_fields[k]].json # "string"
        THEN failed("ValidationError")
        ELSE LET members == problem_data.value.members
                 sess == [ id                  |-> new_id,
                           user_email          |-> user_email,
                           problem_title       |-> members.title.value,
                           problem_description |-> members.description.value,
                           problem_context     |-> members.context.value,
                           solution            |-> members.solution.value,
                           current_state       |-> "investigating",
                           hints_given         |-> 0,
                           chat_history        |-> <<>>,
                           created_at          |-> utcnow,
                           completed_at        |-> <<>> ]
             IN  [ok |-> TRUE, error |-> "", session |-> <<sess>>,
                  oracle_calls |-> calls,
                  inserted |-> << insert_one(model_dump(sess), oid) >>]

CreateSession(user_email, run) ==
    /\ n_creates + n_turns < MaxStoreOps
    /\ LET res == create_lesson_session(user_email, run, SessionIds[n_creates + 1],
                                        ObjectIds[Len(interactive_lessons) + 2], now)
       IN  /\ interactive_lessons' = interactive_lessons \o res.inserted
           /\ last' = [ kind         |-> "create",
                        user_email   |-> user_email,
                        run          |-> run,
                        ok           |-> res.ok,
                        error        |-> res.error,
                        session      |-> res.session,
                        oracle_calls |-> res.oracle_calls ]
    /\ n_creates' = n_creates + 1
    /\ now' = now + 1
    /\ UNCHANGED <<db_slide, session, db_session, req, n_turns, n_responses,
                   hint_in, hint_out, generated_lessons, n_generates>>

----------------------------------------------------------------------------
(* Lookups by owner: the users collection read by the slide endpoint, and the
   interactive_lessons collection read by get_session *)

LessonId == "lesson-1"

OtherLessonId == "lesson-2"

OtherEmail == "colleague@example.com"

UnknownEmail == "nobody@example.com"

IntroSlideId == "slide-1"

\* a slide of another type, as the lesson's content slides are
IntroSlide == [type |-> "info", id |-> IntroSlideId, title |-> "Welcome"]

\* the users collection: the owner's lesson ends with the investigation slide
\* (the one the model keeps in db_slide; of its content slides one is kept), a
\* colleague has a lesson of their own
users_collection(slide) ==
    << [ email |-> UserEmail, username |-> "dev",
         lessons |-> << [id |-> LessonId, slides |-> <<IntroSlide, slide>>] >> ],
       [ email |-> OtherEmail, username |-> "colleague",
         lessons |-> << [id |-> OtherLessonId, slides |-> <<IntroSlide>>] >> ] >>

\* the first of the positions that match, 0 if none does
FirstIndex(hits) ==
    IF hits = {} THEN 0 ELSE CHOOSE i \in hits : \A j \in hits : i <= j

\* the position of a user's first lesson of that id, 0 if none
LessonIndex(user, lesson_id) ==
    FirstIndex({ k \in 1..Len(user.lessons) : user.lessons[k].id = lesson_id })

\* the position of the first user document of that email with a lesson of that
\* id, 0 if none: the filter {"email": email, "lessons.id": lesson_id}
UserIndex(users, email, lesson_id) ==
    FirstIndex({ i \in 1..Len(users) :
                   users[i].email = email /\ LessonIndex(users[i], lesson_id) # 0 })

\* get_username_by_email: <<>> for None
get_username_by_email(users, email) ==
    LET i == FirstIndex({ k \in 1..Len(users) : users[k].email = email })
    IN  IF i = 0 THEN <<>> ELSE << users[i].username >>

\* get_lesson_by_id: the user's first lesson with that id, <<>> for None
get_lesson_by_id(users, email, lesson_id) ==
    LET i == UserIndex(users, email, lesson_id)
    IN  IF i = 0 THEN <<>>
        ELSE << users[i].lessons[LessonIndex(users[i], lesson_id)] >>

\* the endpoint's loop over the slides: the position found, 0 if none
find_investigation_slide(lesson_data, slide_id) ==
    FirstIndex({ k \in 1..Len(lesson_data.slides) :
                   /\ lesson_data.slides[k].id = slide_id
                   /\ lesson_data.slides[k].type = "interactive_investigation" })

\* update_lesson_slide: $set of the slide at slide_index (counted from 1 here) in
\* the first lesson of that id of that user
update_lesson_slide(users, email, lesson_id, slide_index, slide_data) ==
    LET i == UserIndex(users, email, lesson_id)
    IN  IF i = 0 THEN users
        ELSE [users EXCEPT
                ![i].lessons[LessonIndex(users[i], lesson_id)].slides[slide_index]
                    = slide_data]

\* the investigation slide of the owner's lesson as the collection holds it
stored_investigation_slide(users) ==
    LET slides == users[1].lessons[1].slides
    IN  slides[Len(slides)]

\* what the endpoint answers: the response, or the HTTPException it raises
SlideReply(status, detail, email, lesson_id, slide_id, turn) ==
    [ kind         |-> "slide_request",
      status       |-> status,
      detail       |-> detail,
      email        |-> email,
      lesson_id    |-> lesson_id,
      slide_id     |-> slide_id,
      oracle_calls |-> IF turn = NoTurn THEN <<>> ELSE turn.oracle_calls,
      turn         |-> turn ]

\* the whole endpoint for any request: the three lookups, each answered with
\* 404 when it finds nothing, then the turn and the write of the slide
SlideRequest(email, lesson_id, slide_id, message, grade_run, reply_run) ==
    /\ n_creates + n_turns < MaxStoreOps
    /\ LET users == users_collection(db_slide)
           username == get_username_by_email(users, email)
           lesson_data == get_lesson_by_id(users, email, lesson_id)
           rejected(detail) ==
               /\ last' = SlideReply(404, detail, email, lesson_id, slide_id, NoTurn)
               /\ UNCHANGED <<db_slide, now, n_responses>>
       IN  IF username = <<>> THEN rejected("User not found")
           ELSE IF lesson_data = <<>> THEN rejected("Lesson not found")
           ELSE LET slide_index == find_investigation_slide(lesson_data[1], slide_id)
                IN  IF slide_index = 0
                    THEN rejected("Interactive investigation slide not found")
                    ELSE LET slide_data == lesson_data[1].slides[slide_index]
                             res == handle_slide_message(slide_data, message,
                                                         grade_run, reply_run)
                             updated_slide == SlideUpdate(slide_data, message, res, now)
                         IN  /\ db_slide' = stored_investigation_slide(
                                    update_lesson_slide(users, email, lesson_id,
                                                        slide_index, updated_slide))
                             /\ last' = SlideReply(200, "", email, lesson_id, slide_id,
                                            TurnRecord("slide", slide_data,
                                                       updated_slide, message, res))
                             /\ now' = now + 1
                             /\ n_responses' = n_responses + 1
    /\ n_turns' = n_turns + 1
    /\ UNCHANGED <<session, db_session, req, hint_in, hint_out>>
    /\ UNCHANGED creation_vars

\* a call of the service's get_session for any id and owner
GetSessionAs(session_id, user_email) ==
    /\ last' = [ kind       |-> "get_session",
                 session_id |-> session_id,
                 user_email |-> user_email,
                 result     |-> InteractiveLessonService_get_session(
                                    <<db_session>> \o interactive_lessons,
                                    session_id, user_email) ]
    /\ UNCHANGED <<db_slide, session, db_session, req, now, n_turns, n_responses,
                   hint_in, hint_out>>
    /\ UNCHANGED creation_vars

----------------------------------------------------------------------------
(* Lesson generation: LessonGeneratorService.generate_lesson, POST
   /generate-lesson and GET /lesson *)

\* str(uuid.uuid4()) of the successive lessons
GeneratedLessonIds == << "lesson-g1", "lesson-g2", "lesson-g3", "lesson-g4" >>

\* f"detective_{uuid.uuid4().hex[:8]}" of the successive lessons
DetectiveIds ==
    << "detective_0a1b2c3d", "detective_4e5f6a7b", "detective_8c9d0e1f",
       "detective_2a3b4c5d" >>

\* what the agent run does on the lesson prompt
LessonRuns ==
    { Returned(LessonText(input)) : input \in LessonInputs }
    \cup { Returned(Fence \o "json\n" \o LessonText(<<MaxSlides, FALSE, "complete">>)
                    \o "\n" \o Fence),
           Raised("timeout") }

\* _parse_lesson_response: the fences go as in _parse_problem_response, the two
\* re.sub calls rewrite "text" members only and the texts of the model have
\* none; the parsed value, or the ValueError raised
_parse_lesson_response(response) ==
    LET loaded == json_loads(StripFences(response))
    IN  IF ~loaded.ok THEN Failure("ValueError") ELSE Success(loaded.value)

\* each run is queried and parsed once, not once per state
lesson_data_of == [r \in LessonRuns |-> _parse_lesson_response(Agent_query(r).text)]

\* the slide types _create_lesson_object builds, with the prefix of the id it
\* gives a slide that brings none
SlideIdPrefix ==
    [ info |-> "info", mcq |-> "mcq", drag_drop |-> "drag", video |-> "video",
      interactive_investigation |-> "detective" ]

\* Lesson(...): pydantic checks the length of slides when the model is built
Lesson(fields) ==
    IF Len(fields.slides) < MinSlides \/ Len(fields.slides) > MaxSlides
    THEN Failure("ValidationError")
    ELSE Success(fields)

\* _create_lesson_object: slides of an unknown type are skipped, the others are
\* built in order (of a slide the model keeps its type and id), then the Lesson
\* is built; any exception leaves as ValueError
_create_lesson_object(lesson_data, user_email, lesson_id, utcnow) ==
    IF lesson_data.json # "object" THEN Failure("ValueError")
    ELSE LET members == lesson_data.members
             listed == IF "slides" \in DOMAIN members THEN members.slides.items
                       ELSE <<>>
             known(slide_data) ==
                 /\ "type" \in DOMAIN slide_data.members
                 /\ slide_data.members.type.value \in DOMAIN SlideIdPrefix
             kept == SelectSeq(listed, known)
             slides == [ k \in 1..Len(kept) |->
                           [ type |-> kept[k].members.type.value,
                             id   |-> SlideIdPrefix[kept[k].members.type.value]
                                      \o "_" \o ToString(k - 1) ] ]
             lesson == Lesson([ id         |-> lesson_id,
                                title      |-> members.title.value,
                                slides     |-> slides,
                                user_email |-> user_email,
                                created_at |-> utcnow ])
         IN  IF lesson.ok THEN lesson ELSE Failure("ValueError")

\* _create_detective_slide_from_data: the slide, or the KeyError of a scenario
\* that lacks one of the four keys it indexes
_create_detective_slide_from_data(detective_data, slide_id) ==
    LET needed == { "title", "problem_description", "problem_context", "solution" }
        members == detective_data.members
    IN  IF ~(needed \subseteq DOMAIN members) THEN Failure("KeyError")
        ELSE Success([ type                |-> "interactive_investigation",
                       id                  |-> slide_id,
                       title               |-> members.title.value,
                       problem_description |-> members.problem_description.value,
                       problem_context     |-> members.problem_context.value,
                       solution            |-> members.solution.value,
                       hints               |-> <<>>,
                       chat_history        |-> <<>>,
                       current_state       |-> "investigating",
                       hints_given         |-> 0 ])

\* generate_lesson: one query, the parse, the Lesson, then the detective slide
\* appended to the slides of the Lesson already built; the lesson returned or
\* the exception re-raised, and the oracle calls made
generate_lesson(run, user_email, lesson_id, detective_id, utcnow) ==
    LET lesson_data == lesson_data_of[run]
        calls == << Call("lesson", run) >>
        failed(error) == [ok |-> FALSE, error |-> error, lesson |-> <<>>,
                          oracle_calls |-> calls]
        returned(lesson) == [ok |-> TRUE, error |-> "", lesson |-> <<lesson>>,
                             oracle_calls |-> calls]
    IN  IF ~lesson_data.ok THEN failed(lesson_data.error)
        ELSE LET made == _create_lesson_object(lesson_data.value, user_email,
                                               lesson_id, utcnow)
             IN  IF ~made.ok THEN failed(made.error)
                 ELSE IF "detective_scenario" \notin DOMAIN lesson_data.value.members
                 THEN returned(made.value)
                 ELSE LET detective_slide ==
                              _create_detective_slide_from_data(
                                  lesson_data.value.members.detective_scenario,
                                  detective_id)
                      IN  IF ~detective_slide.ok THEN failed(detective_slide.error)
                          ELSE returned([made.value EXCEPT
                                   !.slides = Append(@, detective_slide.value)])

\* the users collection as the lesson endpoints see it: of a user's lessons the
\* generated ones, in the order save_new_lesson pushed them
lesson_users(lessons) ==
    LET owned(email) == SelectSeq(lessons, LAMBDA l : l.user_email = email)
    IN  << [ email |-> UserEmail, username |-> "dev", lessons |-> owned(UserEmail) ],
           [ email |-> OtherEmail, username |-> "colleague",
             lessons |-> owned(OtherEmail) ] >>

\* POST /generate-lesson: 404 for an unknown user, 500 for a generation that
\* raised, else the lesson's model_dump pushed to the user's lessons and the
\* lesson returned
GenerateLesson(email, run) ==
    /\ n_generates < MaxLessonOps
    /\ LET username == get_username_by_email(lesson_users(generated_lessons), email)
           answer(status, res) ==
               last' = [ kind         |-> "generate_lesson",
                         email        |-> email,
                         run          |-> run,
                         status       |-> status,
                         lesson       |-> res.lesson,
                         oracle_calls |-> res.oracle_calls ]
       IN  IF username = <<>>
           THEN /\ answer(404, [lesson |-> <<>>, oracle_calls |-> <<>>])
                /\ UNCHANGED generated_lessons
           ELSE LET res == generate_lesson(run, email,
                                           GeneratedLessonIds[n_generates + 1],
                                           DetectiveIds[n_generates + 1], now)
                IN  IF ~res.ok
                    THEN /\ answer(500, res)
                         /\ UNCHANGED generated_lessons
                    ELSE /\ answer(200, res)
                         /\ generated_lessons' = Append(generated_lessons, res.lesson[1])
    /\ n_generates' = n_generates + 1
    /\ now' = now + 1
    /\ UNCHANGED <<db_slide, session, db_session, req, n_turns, n_responses,
                   hint_in, hint_out, interactive_lessons, n_creates>>

\* GET /lesson/{email}/{lesson_id}: 404 when the lookup finds nothing, 500 when
\* Lesson(**lesson_data) rejects the document, else the lesson
GetLesson(email, lesson_id) ==
    /\ LET lesson_data == get_lesson_by_id(lesson_users(generated_lessons), email,
                                           lesson_id)
           answer(status, lesson) ==
               last' = [ kind      |-> "get_lesson",
                         email     |-> email,
                         lesson_id |-> lesson_id,
                         status    |-> status,
                         lesson    |-> lesson ]
       IN  IF lesson_data = <<>> THEN answer(404, <<>>)
           ELSE IF ~Lesson(lesson_data[1]).ok THEN answer(500, <<>>)
           ELSE answer(200, lesson_data)
    /\ UNCHANGED <<db_slide, session, db_session, req, now, n_turns, n_responses,
                   hint_in, hint_out>>
    /\ UNCHANGED creation_vars

----------------------------------------------------------------------------
(* Hint eligibility on its own *)

History(n) == [k \in 1..n |-> [role |-> "user", message |-> "m", timestamp |-> 0]]

NoHintInput == [message |-> "", conversation_length |-> 0, hints_given |-> 0]

EvalHint ==
    /\ hint_out = <<>>
    /\ LET sess == [InteractiveLessonSession EXCEPT
                      !.chat_history = History(hint_in.conversation_length),
                      !.hints_given = hint_in.hints_given]
           slide_data == [InteractiveInvestigationSlide EXCEPT
                            !.chat_history = History(hint_in.conversation_length),
                            !.hints_given = hint_in.hints_given]
       IN  hint_out' = << _should_provide_hint(sess, hint_in.message),
                          _should_provide_slide_hint(slide_data, hint_in.message) >>
    /\ UNCHANGED <<db_slide, session, db_session, req, last, now, n_turns,
                   n_responses, hint_in>>
    /\ UNCHANGED creation_vars

----------------------------------------------------------------------------
(* Specifications *)

InitBase ==
    /\ db_slide = InteractiveInvestigationSlide
    /\ session = InteractiveLessonSession
    /\ db_session = insert_one(model_dump(InteractiveLessonSession), ObjectIds[1])
    /\ req = [p \in Requests |-> Idle]
    /\ last = NoTurn
    /\ now = 1
    /\ n_turns = 0
    /\ n_responses = 0

Init ==
    /\ InitBase
    /\ hint_in = NoHintInput
    /\ hint_out = <<>>
    /\ interactive_lessons = <<>>
    /\ n_creates = 0
    /\ generated_lessons = <<>>
    /\ n_generates = 0

\* turns one after another, on the slide and on the standalone session
Next ==
    \/ \E m \in Messages, g \in GraderRuns, o \in ReplyRuns : SlideMessage(m, g, o)
    \/ \E m \in Messages, g \in GraderRuns, o \in ReplyRuns : ChatMessage(m, g, o)
    \/ update_session
    \/ get_session

Spec == Init /\ [][Next]_vars

ConcGraderRuns == { Returned("CORRECT"), Returned("INCORRECT") }

ConcReplyRuns == { Returned("  Check the cache layer logs.  ") }

NextConc ==
    \/ \E p \in Requests, m \in ConcMessages : SlideBegin(p, m)
    \/ \E p \in Requests, g \in ConcGraderRuns, o \in ConcReplyRuns : SlideFinish(p, g, o)
    \/ \E p \in Requests : SlideCancel(p)
    \/ \E m \in ConcMessages : ChatCancel(m)

SpecConc == Init /\ [][NextConc]_vars

\* the standalone session alone: its turns, and its saves and reloads
NextSession ==
    \/ \E m \in Messages, g \in GraderRuns, o \in ReplyRuns : ChatMessage(m, g, o)
    \/ update_session
    \/ get_session

SpecSession == Init /\ [][NextSession]_vars

\* a conversation on the slide in which nobody asks for a hint or gives up
CadenceGraderRuns == { Returned("CORRECT"), Returned("INCORRECT") }

SlideMessageCadence(message, grade_run, reply_run) ==
    /\ n_turns < MaxCadenceTurns
    /\ LET slide_data == db_slide
           res == handle_slide_message(slide_data, message, grade_run, reply_run)
           updated_slide == SlideUpdate(slide_data, message, res, now)
       IN  /\ db_slide' = updated_slide
           /\ last' = TurnRecord("slide", slide_data, updated_slide, message, res)
    /\ now' = now + 1
    /\ n_turns' = n_turns + 1
    /\ n_responses' = n_responses + 1
    /\ UNCHANGED <<session, db_session, req, hint_in, hint_out>>
    /\ UNCHANGED creation_vars

CadenceReplyRuns == { Returned("  Check the cache layer logs.  ") }

NextCadence ==
    \E m \in SilentMessages, g \in CadenceGraderRuns, o \in CadenceReplyRuns :
        SlideMessageCadence(m, g, o)

SpecCadence == Init /\ [][NextCadence]_vars

\* creation of sessions, and requests and lookups under any owner and ids
StoreMessages == { "Hint please", "I Give Up" }

StoreGraderRuns == { Returned("INCORRECT") }

StoreReplyRuns == { Returned("  Check the cache layer logs.  ") }

NextStore ==
    \/ \E e \in {UserEmail, OtherEmail}, r \in SynthesisRuns : CreateSession(e, r)
    \/ \E id \in {SessionId, SessionIds[1], SessionIds[5]},
          e \in {UserEmail, OtherEmail} : GetSessionAs(id, e)
    \/ \E e \in {UserEmail, OtherEmail, UnknownEmail},
          l \in {LessonId, OtherLessonId},
          sl \in {SlideId, IntroSlideId, "slide-404"},
          m \in StoreMessages, g \in StoreGraderRuns, o \in StoreReplyRuns :
            SlideRequest(e, l, sl, m, g, o)

SpecStore == Init /\ [][NextStore]_vars

\* generation of lessons and their reading back
NextLesson ==
    \/ \E e \in {UserEmail, OtherEmail, UnknownEmail}, r \in LessonRuns :
          GenerateLesson(e, r)
    \/ \E e \in {UserEmail, OtherEmail},
          l \in {GeneratedLessonIds[1], GeneratedLessonIds[2], "lesson-404"} :
            GetLesson(e, l)

SpecLesson == Init /\ [][NextLesson]_vars

\* both paths side by side, on the messages where the two lexicons meet
DialogueGraderRuns == { Returned("CORRECT"), Returned("INCORRECT") }

DialogueReplyRuns == { Returned("  Check the cache layer logs.  ") }

NextDialogue ==
    \/ \E m \in LexiconMessages, g \in DialogueGraderRuns, o \in DialogueReplyRuns :
          SlideMessage(m, g, o)
    \/ \E m \in LexiconMessages, g \in DialogueGraderRuns, o \in DialogueReplyRuns :
          ChatMessage(m, g, o)
    \/ update_session
    \/ get_session

SpecDialogue == Init /\ [][NextDialogue]_vars

\* hint eligibility as a function of its inputs
InitHint ==
    /\ InitBase
    /\ hint_in \in [message : HintMessages,
                    conversation_length : 0..MaxHistLen,
                    hints_given : 0..MaxHintsIn]
    /\ hint_out = <<>>
    /\ interactive_lessons = <<>>
    /\ n_creates = 0
    /\ generated_lessons = <<>>
    /\ n_generates = 0

NextHint == EvalHint

SpecHint == InitHint /\ [][NextHint]_vars

----------------------------------------------------------------------------
(* Properties *)

IsPrefix(h1, h2) == Len(h1) <= Len(h2) /\ SubSeq(h2, 1, Len(h1)) = h1

Terminal(state) == state \in {"solved", "given_up"}

\* the messages of the model that hold a give-up phrase, read off the lexicon of
\* section 4.3 by hand
GiveUpTexts == { "I Give Up", "I'm stuck" }

\* the messages of the model that hold a hint-request word, read off by hand
HintRequestTexts ==
    { "Hint please", "I'm stuck", "give me a Clue", "HELP", "Not sure about it",
      "Any ideas" }

\* the agent runs whose answer begins, trimmed and whatever its case, with CORRECT
CorrectLeadingRuns ==
    { Returned("CORRECT"), Returned("  correct\n"), Returned("CORRECTION: not quite") }

\* the only steps of current_state a turn may take (a turn is a step that hands
\* back a result; a reload of the session object is none)
AllowedStep(state, next_state) ==
    \/ next_state = state
    \/ state = "investigating" /\ Terminal(next_state)

\* C1: current_state of a slide or session changes only from investigating to
\* solved or given_up; once it is solved or given_up no later turn changes it.
C1_StateMonotonic ==
    [][ last' # last
          => /\ AllowedStep(db_slide.current_state, db_slide'.current_state)
             /\ AllowedStep(session.current_state, session'.current_state)
      ]_vars

\* C2: a turn whose message holds a give-up phrase ends as given_up, with
\* is_correct false and completed true, and makes no call to the grader, whatever
\* the grader would have answered.
C2_GiveUpPriority ==
    /\ (last.kind # "none" /\ last.message \in GiveUpTexts)
          => /\ ~last.is_correct
             /\ last.completed
             /\ last.after.current_state = "given_up"
             /\ last.oracle_calls = <<>>
    /\ \A m \in GiveUpTexts, g \in CorrectLeadingRuns :
          LET o == Returned("")
              on_slide == handle_slide_message(db_slide, m, g, o)
              on_session == handle_chat_message(session, m, g, o, now)
          IN  /\ on_slide.completed /\ ~on_slide.is_correct
              /\ on_slide.oracle_calls = <<>>
              /\ SlideUpdate(db_slide, m, on_slide, now).current_state = "given_up"
              /\ on_session.completed /\ ~on_session.is_correct
              /\ on_session.oracle_calls = <<>>
              /\ on_session.session.current_state = "given_up"

C2_Witness ==
    /\ last.kind = "slide"
    /\ last.message = "I Give Up"
    /\ last.prior.current_state = "investigating"
    /\ last.completed /\ ~last.is_correct
    /\ db_slide.current_state = "given_up"

\* C3: whenever the grader is asked and the oracle's answer does not begin with
\* CORRECT (trimmed, any case), an INCORRECT answer, an answer in another format
\* and a failed call included, the verdict is false and the turn goes on to its
\* reply: the grader raises nothing.
C3_GraderFailClosed ==
    (last.kind # "none" /\ last.oracle_calls # <<>>)
        => ( last.oracle_calls[1].run \notin CorrectLeadingRuns
               => /\ ~last.is_correct
                  /\ ~last.completed
                  /\ Len(last.oracle_calls) = 2
                  /\ last.oracle_calls[2].kind = "reply" )

C3_Witness ==
    /\ last.kind = "session"
    /\ Len(last.oracle_calls) = 2
    /\ last.oracle_calls[1] = Call("grade", Raised("timeout"))
    /\ ~last.is_correct

\* C4: a message that ends in '?' or has fewer than 50 words is never graded
\* correct, whatever the oracle answers, and its turn never moves the session
\* to solved.
C4_ShortOrQuestionNeverCorrect ==
    (last.kind # "none" /\ (endswith(last.message, "?") \/ WordCount(last.message) < 50))
        => /\ ~last.is_correct
           /\ ~(last.prior.current_state # "solved" /\ last.after.current_state = "solved")

SilentSoFar(chat_history) ==
    \A i \in 1..Len(chat_history) :
        IF chat_history[i].role = "user"
        THEN chat_history[i].message \notin (GiveUpTexts \cup HintRequestTexts)
        ELSE ~chat_history[i].is_correct

\* C6: in a conversation from an empty history and no hints, with no hint
\* request, no give-up and no answer graded correct, a hint is granted exactly on
\* the turns whose prior history length is 4, 8 or 12 (of those up to 12), so
\* the count of hints is a function of the length.
C6_HintCadence ==
    (last.kind = "slide" /\ last.prior.history_len <= 12 /\ SilentSoFar(db_slide.chat_history))
        => /\ last.hint_provided <=> last.prior.history_len \in {4, 8, 12}
           /\ db_slide.hints_given =
                  Cardinality({k \in {4, 8, 12} : k <= last.prior.history_len})

C6_Witness ==
    /\ last.kind = "slide"
    /\ last.prior.history_len = 12
    /\ SilentSoFar(db_slide.chat_history)
    /\ last.hint_provided
    /\ db_slide.hints_given = 3

\* C7: hints_given grows by exactly 1 in a turn that granted a hint and is
\* unchanged in every other turn; 'hint please' on a fresh investigating session
\* or slide yields hint_provided and hints_given = 1.
C7_HintsGivenCountsHints ==
    last.kind # "none"
        => /\ last.after.hints_given =
                  last.prior.hints_given + (IF last.hint_provided THEN 1 ELSE 0)
           /\ (last.kind = "slide" => db_slide.hints_given = last.after.hints_given)
           /\ ( /\ last.message = "Hint please"
                /\ last.prior.current_state = "investigating"
                /\ last.prior.history_len = 0
                /\ last.prior.hints_given = 0 )
                  => (last.hint_provided /\ last.after.hints_given = 1)

\* C8: every turn, on a standalone session as on a slide, appends exactly two
\* chat_history entries, the user message then the assistant reply, each with a
\* timestamp, the is_correct and hint_provided flags on the assistant entry only.
C8_TwoEntriesPerTurn ==
    /\ last.kind # "none" => last.after.history_len = last.prior.history_len + 2
    /\ last.kind = "slide"
         => LET h == db_slide.chat_history
                n == Len(h)
            IN  /\ n >= 2
                /\ DOMAIN h[n - 1] = {"role", "message", "timestamp"}
                /\ h[n - 1].role = "user" /\ h[n - 1].message = last.message
                /\ DOMAIN h[n] = {"role", "message", "timestamp", "is_correct",
                                  "hint_provided"}
                /\ h[n].role = "assistant" /\ h[n].message = last.response

\* C9: the persisted chat_history of a slide is append-only under any
\* interleaving of requests: each persisted version extends the one before it.
C9_HistoryAppendOnly ==
    [][IsPrefix(db_slide.chat_history, db_slide'.chat_history)]_vars

\* C10: overlapping turns on a slide are applied as if one after the other: once
\* no request is in flight, every answered turn has its two entries in the
\* persisted history and the running hint count of its predecessors.
C10_TurnsSerialized ==
    (\A p \in Requests : req[p].pc = "idle")
        => /\ Len(db_slide.chat_history) = 2 * n_responses
           /\ last.kind = "slide" => last.prior.history_len = 2 * (n_responses - 1)

TurnKinds == {"slide", "session"}

\* C11: in every reachable state of a standalone session, in memory and in the
\* store, completed_at is set exactly when current_state is not investigating.
C11_CompletedAtIffTerminal ==
    /\ (session.completed_at # <<>>) <=> (session.current_state # "investigating")
    /\ (db_session.completed_at # <<>>) <=> (db_session.current_state # "investigating")

C11_Witness ==
    /\ last.kind = "session"
    /\ last.is_correct
    /\ session.current_state = "solved"
    /\ session.completed_at # <<>>
    /\ db_session.current_state = "solved"
    /\ db_session.completed_at # <<>>

\* C12: completed_at of a session is written once, by the turn of the terminal
\* transition: a turn on a session whose completed_at is set leaves it as it is.
C12_CompletedAtWrittenOnce ==
    [][ (n_turns' # n_turns /\ session.completed_at # <<>>)
          => session'.completed_at = session.completed_at
      ]_vars

\* C13: a give-up turn on an investigating session or slide returns a reply that
\* holds the stored solution verbatim, with is_correct false, hint_provided false
\* and completed true, and leaves current_state at given_up.
C13_GiveUpRevealsSolution ==
    ( /\ last.kind \in TurnKinds
      /\ last.message \in GiveUpTexts
      /\ last.prior.current_state = "investigating" )
        => /\ reveals_solution_of[last.response]
           /\ ~last.is_correct
           /\ ~last.hint_provided
           /\ last.completed
           /\ last.after.current_state = "given_up"

C13_Witness ==
    /\ last.kind = "session"
    /\ last.message = "I'm stuck"
    /\ last.prior.current_state = "investigating"
    /\ reveals_solution_of[last.response]
    /\ session.current_state = "given_up"

\* C14: a turn whose message holds no give-up phrase and whose answer the
\* grader classifies as CORRECT returns a reply that holds the stored solution
\* verbatim, with is_correct true, hint_provided false and completed true, leaves
\* current_state at solved, and asks the oracle for no reply.
C14_CorrectTurn ==
    ( /\ last.kind \in TurnKinds
      /\ last.message \notin GiveUpTexts
      /\ last.oracle_calls # <<>>
      /\ last.oracle_calls[1].kind = "grade"
      /\ last.oracle_calls[1].run \in CorrectLeadingRuns )
        => /\ reveals_solution_of[last.response]
           /\ last.is_correct
           /\ ~last.hint_provided
           /\ last.completed
           /\ last.after.current_state = "solved"
           /\ Len(last.oracle_calls) = 1

C14_Witness ==
    /\ last.kind = "slide"
    /\ last.message = LongAnswer
    /\ last.oracle_calls = <<Call("grade", Returned("  correct\n"))>>
    /\ reveals_solution_of[last.response]
    /\ last.is_correct
    /\ db_slide.current_state = "solved"

\* the response of the latest turn carries the solution outside its reply text
SolutionOutsideReply ==
    /\ "solution" \in DOMAIN last.updated_slide
    /\ last.updated_slide.solution = Solution

\* C15: the response of a turn that returns completed = false holds the solution
\* in none of its fields, and a response carries the solution only inside the
\* reply text of a turn with completed = true.
C15_SolutionHiddenUntilCompletion ==
    last.kind \in TurnKinds
        => /\ ~SolutionOutsideReply
           /\ reveals_solution_of[last.response] => last.completed

\* C16: when the oracle call for the reply fails, the turn returns the fixed
\* fallback reply with is_correct, hint_provided and completed all false, leaves
\* hints_given and current_state as they were, and its reply does not hold the
\* error payload of the failure.
C16_ReplyFailureFallback ==
    ( /\ last.kind \in TurnKinds
      /\ Len(last.oracle_calls) = 2
      /\ last.oracle_calls[2].kind = "reply"
      /\ last.oracle_calls[2].run.raised )
        => /\ last.response = FallbackReply
           /\ ~last.is_correct /\ ~last.hint_provided /\ ~last.completed
           /\ last.after.hints_given = last.prior.hints_given
           /\ last.after.current_state = last.prior.current_state
           /\ ~carries_error_of[last.response]

\* the three fields the round trip must reproduce
SameConversation(a, b) ==
    /\ a.chat_history = b.chat_history
    /\ a.current_state = b.current_state
    /\ a.hints_given = b.hints_given

CompleteSynthesisRuns ==
    { Returned(ProblemJson),
      Returned(Fence \o "json\n" \o ProblemJson \o "\n" \o Fence),
      Returned("  " \o Fence \o "\n" \o ProblemJson \o "\n" \o Fence \o "\n") }

DefectiveSynthesisRuns ==
    { Returned("Here is the investigation: " \o ProblemJson),
      Returned(MissingSolutionJson),
      Returned(FieldNamesJson),
      Raised("timeout") }

\* C17: a create_lesson_session call queries the oracle once; when the output
\* is not JSON after the fences are stripped, or lacks a required field, it
\* fails with an error; a failed call inserts no document and a successful one
\* inserts exactly one, the session it returns.
C17_CreationAllOrNothing ==
    /\ [] ( last.kind = "create"
              => /\ Len(last.oracle_calls) = 1
                 /\ last.oracle_calls[1] = Call("synthesize", last.run)
                 /\ last.run \in DefectiveSynthesisRuns
                      => (~last.ok /\ last.error # "" /\ last.session = <<>>) )
    /\ [][ n_creates' # n_creates
             => /\ db_session' = db_session
                /\ IF last'.ok
                   THEN /\ Len(interactive_lessons') = Len(interactive_lessons) + 1
                        /\ SubSeq(interactive_lessons', 1, Len(interactive_lessons))
                               = interactive_lessons
                        /\ load_session(interactive_lessons'[Len(interactive_lessons')])
                               = last'.session[1]
                   ELSE interactive_lessons' = interactive_lessons
         ]_vars

C17_Witness ==
    /\ last.kind = "create"
    /\ last.ok
    /\ last.run \in CompleteSynthesisRuns
    /\ last.run = Returned(Fence \o "json\n" \o ProblemJson \o "\n" \o Fence)
    /\ n_creates = 2
    /\ Len(interactive_lessons) = 1
    /\ interactive_lessons[1].solution = Solution

\* a step in which a turn was started and abandoned: a request that awaited
\* goes idle with no response returned, or a standalone turn returns nothing
CancelStep ==
    /\ n_responses' = n_responses
    /\ last' = last
    /\ \/ \E p \in Requests : req[p].pc = "awaiting" /\ req'[p].pc = "idle"
       \/ n_turns' # n_turns /\ req' = req

C20_LookupsFailClosed ==
    /\ [] ( ( /\ last.kind = "slide_request"
               /\ ~( /\ last.email = UserEmail
                     /\ last.lesson_id = LessonId
                     /\ last.slide_id = SlideId ) )
                => /\ last.status = 404
                   /\ last.oracle_calls = <<>>
                   /\ last.turn = NoTurn )
    /\ [] ( last.kind = "get_session"
              => \A doc \in { db_session } \cup
                             { interactive_lessons[i] : i \in 1..Len(interactive_lessons) } :
                    (doc.id = last.session_id /\ doc.user_email # last.user_email)
                        => last.result = <<>> )
    /\ [][ (n_turns' # n_turns /\ last'.kind = "slide_request" /\ last'.status = 404)
             => /\ db_slide' = db_slide
                /\ db_session' = db_session
                /\ interactive_lessons' = interactive_lessons
         ]_vars

C20_Witness ==
    /\ last.kind = "get_session"
    /\ last.session_id = SessionIds[1]
    /\ last.user_email = UserEmail
    /\ last.result = <<>>
    /\ Len(interactive_lessons) = 1
    /\ interactive_lessons[1].id = SessionIds[1]
    /\ interactive_lessons[1].user_email = OtherEmail

\* C21: a message delivered to a slide or session whose current_state is already
\* solved or given_up is a no-op: the turn calls neither the grader nor the reply
\* generator and leaves current_state, hints_given and chat_history as they were.
C21_TerminalMessageNoOp ==
    (last.kind \in TurnKinds /\ Terminal(last.prior.current_state))
        => /\ last.oracle_calls = <<>>
           /\ last.after = last.prior

\* C22: every lesson generate_lesson returns and /generate-lesson persists has,
\* the appended investigation slide counted, between 10 and 15 slides, so that
\* GET /lesson never fails to load a persisted lesson into the Lesson model.
C22_LessonSlideCount ==
    /\ \A k \in 1..Len(generated_lessons) :
          Len(generated_lessons[k].slides) \in MinSlides..MaxSlides
    /\ (last.kind = "generate_lesson" /\ last.lesson # <<>>)
          => Len(last.lesson[1].slides) \in MinSlides..MaxSlides
    /\ last.kind = "get_lesson" => last.status # 500

\* the oracle calls a turn on that message may make, in order, given its verdict
CallsInOrder(message, is_correct, grade_run, reply_run) ==
    IF message \in GiveUpTexts THEN <<>>
    ELSE IF is_correct THEN << Call("grade", grade_run) >>
    ELSE << Call("grade", grade_run), Call("reply", reply_run) >>

\* C23: the oracle calls of a turn are made one after the other, grading first:
\* a give-up turn makes none, a turn graded correct makes exactly one (the
\* grading), every other turn makes exactly two, the grading and then the reply.
C23_OracleCallsInOrder ==
    /\ last.kind \in TurnKinds
          => /\ Len(last.oracle_calls) =
                    (IF last.message \in GiveUpTexts THEN 0
                     ELSE IF last.is_correct THEN 1 ELSE 2)
             /\ Len(last.oracle_calls) >= 1 => last.oracle_calls[1].kind = "grade"
             /\ Len(last.oracle_calls) = 2 => last.oracle_calls[2].kind = "reply"
    /\ \A m \in Messages, g \in GraderRuns, o \in ReplyRuns :
          LET on_slide == handle_slide_message(db_slide, m, g, o)
              on_session == handle_chat_message(session, m, g, o, now)
          IN  /\ on_slide.oracle_calls = CallsInOrder(m, on_slide.is_correct, g, o)
              /\ on_session.oracle_calls = CallsInOrder(m, on_session.is_correct, g, o)

C23_Witness ==
    /\ last.kind = "session"
    /\ last.message = "Hint please"
    /\ last.oracle_calls = << Call("grade", Returned("INCORRECT")),
                              Call("reply", Returned("  Check the cache layer logs.  ")) >>
    /\ ~last.is_correct /\ ~last.completed

\* the fields of a slide and of a session that synthesis fixes
SlideSynthesisFields ==
    { "id", "title", "problem_description", "problem_context", "solution", "hints" }

SessionSynthesisFields ==
    { "id", "user_email", "problem_title", "problem_description", "problem_context",
      "solution" }

\* C24: no turn and no grading call changes what synthesis fixed: after any
\* sequence of turns the id, owner, title, problem description, problem context,
\* solution and static hints of the slide and of the session, in memory and in
\* the store, are those of creation.
C24_SynthesisFieldsFixed ==
    /\ \A f \in SlideSynthesisFields : db_slide[f] = InteractiveInvestigationSlide[f]
    /\ \A f \in SessionSynthesisFields :
          /\ session[f] = InteractiveLessonSession[f]
          /\ db_session[f] = InteractiveLessonSession[f]
    /\ last.kind = "slide"
          => \A f \in SlideSynthesisFields :
                last.updated_slide[f] = InteractiveInvestigationSlide[f]

C24_Witness ==
    /\ last.kind = "slide"
    /\ last.is_correct
    /\ db_slide.hints_given > 0
    /\ Len(db_slide.chat_history) = 4
    /\ db_slide.solution = Solution
    /\ session.current_state = "given_up"
    /\ db_session.current_state = "given_up"
    /\ db_session.solution = Solution

\* C25: the standalone path and the slide path are one state machine: from equal
\* current_state, hints_given and chat_history, on the same message and the same
\* oracle answers, handle_chat_message and handle_slide_message followed by the
\* endpoint's update return the same (is_correct, hint_provided, completed) and
\* end in the same current_state, hints_given and chat_history.
C25_PathsEquivalent ==
    ( /\ session.current_state = db_slide.current_state
      /\ session.hints_given = db_slide.hints_given
      /\ session.chat_history = db_slide.chat_history )
        => \A m \in LexiconMessages, g \in DialogueGraderRuns, o \in DialogueReplyRuns :
              LET on_session == handle_chat_message(session, m, g, o, now)
                  on_slide == handle_slide_message(db_slide, m, g, o)
                  updated_slide == SlideUpdate(db_slide, m, on_slide, now)
              IN  /\ on_session.is_correct = on_slide.is_correct
                  /\ on_session.hint_provided = on_slide.hint_provided
                  /\ on_session.completed = on_slide.completed
                  /\ on_session.session.current_state = updated_slide.current_state
                  /\ on_session.session.hints_given = updated_slide.hints_given
                  /\ on_session.session.chat_history = updated_slide.chat_history

\* the first whitespace-delimited word of a text
LeadingToken(s) ==
    LET t == strip(s)
        stops == { i \in 1..Len(t) : IsSpace(CharAt(t, i)) }
    IN  IF stops = {} THEN t
        ELSE SubSeq(t, 1, (CHOOSE i \in stops : \A j \in stops : i <= j) - 1)

\* C26: the grader answers true only when the first word of the oracle's answer
\* is exactly CORRECT, whatever its case; an answer whose first word is a longer
\* word that begins with those letters (CORRECTION, CORRECTLY) counts as
\* INCORRECT.
C26_GraderExactToken ==
    (last.kind \in TurnKinds /\ last.is_correct)
        => /\ ~last.oracle_calls[1].run.raised
           /\ LeadingToken(upper(last.oracle_calls[1].run.text)) = "CORRECT"

\* C27: _parse_problem_response either returns a JSON object that has the four
\* fields title, description, context and solution, or fails with an error; for
\* no oracle text, fenced or not, a JSON value that is no object included, does
\* it return anything else.
C27_ParseReturnsRecordOrFails ==
    last.kind = "create"
        => LET parsed == problem_data_of[last.run]
           IN  parsed.ok
                 => /\ parsed.value.json = "object"
                    /\ \A k \in 1..Len(required_fields) :
                          required_fields[k] \in DOMAIN parsed.value.members

\* the messages of LexiconMessages that hold a give-up phrase, read off the
\* lexicon by hand
LexiconGiveUpTexts == { "I'm stuck", "give up, any hint" }

\* the three results a turn may hand back
GiveUpShape(turn) == ~turn.is_correct /\ ~turn.hint_provided /\ turn.completed

SolvedShape(turn) == turn.is_correct /\ ~turn.hint_provided /\ turn.completed

OpenShape(turn) == ~turn.is_correct /\ ~turn.completed

\* C28: the result of every turn is (false, false, true) for a give-up, (true,
\* false, true) for a solve, or (false, any, false) otherwise; so is_correct
\* implies completed, hint_provided implies not completed, and labelling a
\* completed turn solved when is_correct and given_up otherwise names the turn
\* rightly.
C28_ResultShapes ==
    last.kind \in TurnKinds
        => /\ GiveUpShape(last) \/ SolvedShape(last) \/ OpenShape(last)
           /\ last.message \in LexiconGiveUpTexts <=> GiveUpShape(last)
           /\ last.is_correct => last.completed
           /\ last.hint_provided => ~last.completed
           /\ last.after.current_state =
                 ( IF SolvedShape(last) THEN "solved"
                   ELSE IF GiveUpShape(last) THEN "given_up"
                   ELSE last.prior.current_state )

C28_Witness ==
    /\ last.kind = "slide"
    /\ last.message = "We are stuck on the cache"
    /\ OpenShape(last) /\ last.hint_provided
    /\ last.prior.current_state = "investigating"
    /\ last.after.current_state = "investigating"
    /\ last.after.hints_given = 2

\* the assistant entries of a history that carry a granted hint
HintEntries(chat_history) ==
    { i \in 1..Len(chat_history) :
        /\ chat_history[i].role = "assistant"
        /\ chat_history[i].hint_provided }

C30_GiveUpShadowsHint ==
    last.kind \in TurnKinds
        => /\ last.message \in LexiconGiveUpTexts
                => /\ last.after.current_state = "given_up"
                   /\ last.completed /\ ~last.is_correct
                   /\ reveals_solution_of[last.response]
                   /\ ~last.hint_provided
                   /\ last.after.hints_given = last.prior.hints_given
                   /\ last.oracle_calls = <<>>
           /\ last.hint_provided => last.message \notin LexiconGiveUpTexts
           /\ (last.message = "We are stuck on the cache" /\ ~last.is_correct)
                => /\ last.hint_provided
                   /\ last.after.hints_given = last.prior.hints_given + 1

C30_Witness ==
    /\ last.kind = "slide"
    /\ last.message = "give up, any hint"
    /\ last.prior.current_state = "investigating"
    /\ last.prior.hints_given = 1
    /\ last.after.current_state = "given_up"
    /\ last.after.hints_given = 1
    /\ ~last.hint_provided
    /\ reveals_solution_of[last.response]

====
